---- MODULE Spec2Model ----
(***************************************************************************)
(* State-machine model of the IPL points-table engine (src/server.js):     *)
(* the LinkedList of TeamNode records, the Stack of recorded matches, the  *)
(* Queue of upcoming fixtures, and the IPLTournament operations on them.   *)
(*                                                                         *)
(* Strings are sequences of character codes, so that toLowerCase is a      *)
(* computation and not the identity.  netRunRate is an integer number of   *)
(* hundredths (the code keeps two decimals).  The display-only fields of a *)
(* TeamNode (shortName, captain, homeGround, color) and the `date` stamp   *)
(* of a match record are read by no operation and are left out.            *)
(***************************************************************************)
EXTENDS Integers, Sequences, FiniteSets, TLC

VARIABLES teams, matchHistory, upcomingMatches, last

vars == <<teams, matchHistory, upcomingMatches, last>>

(***************************************************************************)
(* Bounds of the exploration.                                              *)
(***************************************************************************)
\* ledger length explored by Spec, SpecQueue and SpecRegistry
MaxMatches == 2
\* registry length up to which Spec and SpecQueue register teams
MaxTeams == 2
\* fixture-queue length explored by Spec
MaxQueue == 1
\* ledger length explored by SpecNRR
MaxDeep == 5
\* ledger length explored by SpecHistory
MaxHistory == 51

(***************************************************************************)
(* Names used by the source and by the calls the model makes.              *)
(***************************************************************************)
\* 'Mumbai Indians'
MI == <<77, 117, 109, 98, 97, 105, 32, 73, 110, 100, 105, 97, 110, 115>>
\* 'Chennai Super Kings'
CSK == <<67, 104, 101, 110, 110, 97, 105, 32, 83, 117, 112, 101, 114, 32, 75, 105, 110, 103, 115>>
\* 'Royal Challengers Bangalore'
RCB == <<82, 111, 121, 97, 108, 32, 67, 104, 97, 108, 108, 101, 110, 103, 101, 114, 115, 32, 66, 97, 110, 103, 97, 108, 111, 114, 101>>
\* 'Kolkata Knight Riders'
KKR == <<75, 111, 108, 107, 97, 116, 97, 32, 75, 110, 105, 103, 104, 116, 32, 82, 105, 100, 101, 114, 115>>
\* 'Delhi Capitals'
DC == <<68, 101, 108, 104, 105, 32, 67, 97, 112, 105, 116, 97, 108, 115>>
\* 'Punjab Kings'
PBKS == <<80, 117, 110, 106, 97, 98, 32, 75, 105, 110, 103, 115>>
\* 'Rajasthan Royals'
RR == <<82, 97, 106, 97, 115, 116, 104, 97, 110, 32, 82, 111, 121, 97, 108, 115>>
\* 'Sunrisers Hyderabad'
SRH == <<83, 117, 110, 114, 105, 115, 101, 114, 115, 32, 72, 121, 100, 101, 114, 97, 98, 97, 100>>
\* 'Gujarat Titans'
GT == <<71, 117, 106, 97, 114, 97, 116, 32, 84, 105, 116, 97, 110, 115>>
\* 'Lucknow Super Giants'
LSG == <<76, 117, 99, 107, 110, 111, 119, 32, 83, 117, 112, 101, 114, 32, 71, 105, 97, 110, 116, 115>>

\* 'chennai super kings': a caller's spelling of a registered name
CskLower == <<99, 104, 101, 110, 110, 97, 105, 32, 115, 117, 112, 101, 114, 32, 107, 105, 110, 103, 115>>
\* 'Ghost': a name no team is ever registered under
Ghost == <<71, 104, 111, 115, 116>>

\* the literal 'Tie' of recordMatch
TieMarker == <<84, 105, 101>>

\* the message of the Error thrown by recordMatch
TeamNotFound == "Team not found"

\* the seed roster of initializeIPLTeams, in its order
SeedNames == <<MI, CSK, RCB, KKR, DC, PBKS, RR, SRH, GT, LSG>>

\* teamData the model passes to addTeam, scores it passes to recordMatch,
\* fixtures it passes to addUpcomingMatch
AddData == {[name |-> MI], [name |-> CSK]}
Scores == {0, 1}
Fixtures == {[team1 |-> MI, team2 |-> CSK]}

(***************************************************************************)
(* JavaScript primitives.                                                  *)
(***************************************************************************)
\* String.prototype.toLowerCase on ASCII text
ToLowerCase(s) ==
  [i \in 1..Len(s) |-> IF s[i] >= 65 /\ s[i] <= 90 THEN s[i] + 32 ELSE s[i]]

Min(a, b) == IF a < b THEN a ELSE b
Max(a, b) == IF a > b THEN a ELSE b
Abs(x) == IF x < 0 THEN -x ELSE x

\* Array.prototype.slice(start, end) for 0 <= start; a negative end counts
\* from the end of the array
Slice(s, start, end) ==
  LET e == IF end < 0 THEN Max(Len(s) + end, 0) ELSE Min(end, Len(s))
  IN  IF start >= e THEN <<>> ELSE SubSeq(s, start + 1, e)

\* Array.prototype.unshift(x)
Unshift(s, x) == <<x>> \o s

\* [...items].reverse()
RECURSIVE Reverse(_)
Reverse(s) == IF s = <<>> THEN <<>> ELSE Append(Reverse(Tail(s)), Head(s))

\* (mutant: the quotient cut to two decimals, not rounded)
ToFixed2Truncating(num, den) ==
  LET q == (100 * Abs(num)) \div den
  IN  IF num < 0 THEN -q ELSE q

\* parseFloat((num / den).toFixed(2)), in hundredths, den > 0.  toFixed takes
\* the nearest two-decimal value and, of two equally near, the one of larger
\* magnitude.  A quotient of integers lying exactly half-way between two
\* hundredths is a multiple of 1/8 for every den < 40 and so is an exact
\* double: below that ledger length the double and the rational round alike.
ToFixed2(num, den) ==
  LET q == (200 * Abs(num) + den) \div (2 * den)
  IN  IF num < 0 THEN -q ELSE q

(***************************************************************************)
(* TeamNode and LinkedList.                                                *)
(***************************************************************************)
\* teamData.f || d
OrDefault(teamData, f, d) ==
  IF f \in DOMAIN teamData /\ teamData[f] # 0 THEN teamData[f] ELSE d

TeamNode(teamData) ==
  [ name          |-> teamData.name,
    points        |-> OrDefault(teamData, "points", 0),
    netRunRate    |-> OrDefault(teamData, "netRunRate", 0),
    matchesPlayed |-> OrDefault(teamData, "matchesPlayed", 0),
    wins          |-> OrDefault(teamData, "wins", 0),
    losses        |-> OrDefault(teamData, "losses", 0),
    noResults     |-> OrDefault(teamData, "noResults", 0),
    runsScored    |-> OrDefault(teamData, "runsScored", 0),
    runsConceded  |-> OrDefault(teamData, "runsConceded", 0),
    form          |-> IF "form" \in DOMAIN teamData THEN teamData.form ELSE <<>> ]

\* (mutant: the new node put at the head)
ListAddTeamFirst(list, teamData) == <<TeamNode(teamData)>> \o list

\* LinkedList.addTeam: the list as the sequence of its nodes from head
ListAddTeam(list, teamData) == Append(list, TeamNode(teamData))

\* null, as the position of no node
NULL == 0

\* (mutant: a search that ends on the last node matching name)
FindFromLatest(list, name, i) ==
  LET m == {j \in i..Len(list) : ToLowerCase(list[j].name) = ToLowerCase(name)}
  IN  IF m = {} THEN NULL ELSE CHOOSE j \in m : \A k \in m : k <= j

\* LinkedList.findTeam: position of the first node matching name, or NULL
RECURSIVE FindFrom(_, _, _)
FindFrom(list, name, i) ==
  IF i > Len(list) THEN NULL
  ELSE IF ToLowerCase(list[i].name) = ToLowerCase(name) THEN i
  ELSE FindFrom(list, name, i + 1)

\* (mutant: a failed search ends on the head node instead of null)
FindTeamOrHead(list, name) ==
  IF FindFrom(list, name, 1) = NULL /\ list # <<>> THEN 1
  ELSE FindFrom(list, name, 1)

FindTeam(list, name) == FindFrom(list, name, 1)

\* LinkedList.getAllTeams
GetAllTeams(list) == list

\* (mutant: the comparator without its net-run-rate tie-break)
CompareByPointsOnly(a, b) == b.points - a.points

\* the comparator of getStandings: negative when a sorts before b
Compare(a, b) ==
  IF b.points - a.points # 0 THEN b.points - a.points
  ELSE b.netRunRate - a.netRunRate

\* Array.prototype.sort is stable: insertion keeps equal elements in order
RECURSIVE InsertSorted(_, _)
InsertSorted(sorted, t) ==
  IF sorted = <<>> THEN <<t>>
  ELSE IF Compare(sorted[Len(sorted)], t) <= 0 THEN Append(sorted, t)
  ELSE Append(InsertSorted(SubSeq(sorted, 1, Len(sorted) - 1), t),
              sorted[Len(sorted)])

RECURSIVE SortFrom(_, _, _)
SortFrom(list, i, acc) ==
  IF i > Len(list) THEN acc
  ELSE SortFrom(list, i + 1, InsertSorted(acc, list[i]))

ListGetStandings(list) == SortFrom(GetAllTeams(list), 1, <<>>)

\* Array.prototype.findIndex with the predicate of getRanking: the 0-based
\* index of the first team matching name, or -1
RECURSIVE FindIndexFrom(_, _, _)
FindIndexFrom(standings, name, i) ==
  IF i > Len(standings) THEN -1
  ELSE IF ToLowerCase(standings[i].name) = ToLowerCase(name) THEN i - 1
  ELSE FindIndexFrom(standings, name, i + 1)

\* LinkedList.getRanking
ListGetRanking(list, name) == FindIndexFrom(ListGetStandings(list), name, 1) + 1

(***************************************************************************)
(* IPLTournament: the pure part of each operation.                         *)
(***************************************************************************)
GetStandings == ListGetStandings(teams)

\* (mutant: a playoff cut of three)
GetPlayoffTeamsTopThree == Slice(GetStandings, 0, 3)

GetPlayoffTeams == Slice(GetStandings, 0, 4)

\* (mutant: a push that puts the item under the others)
StackPushUnder(items, item) == <<item>> \o items

\* Stack.push
StackPush(items, item) == Append(items, item)

\* (mutant: the copy of the items without the reverse)
StackGetAllOldestFirst(items) == items

\* Stack.getAll: most recent first
StackGetAll(items) == Reverse(items)

\* the default of getMatchHistory's parameter
DefaultLimit == 50

\* getMatchHistory(...args): args is <<>> or <<limit>>
GetMatchHistory(args) ==
  LET limit == IF args = <<>> THEN DefaultLimit ELSE args[1]
  IN  Slice(StackGetAll(matchHistory), 0, limit)

GetTournamentStats ==
  [ totalTeams    |-> Len(GetAllTeams(teams)),
    matchesPlayed |-> Len(matchHistory),
    playoffTeams  |-> [i \in 1..Len(GetPlayoffTeams) |-> GetPlayoffTeams[i].name] ]

\* recordMatch, lines 165-167: the guard of the throw
NotFound(t1, t2) == t1 = NULL \/ t2 = NULL

\* (mutant: only the first team's matchesPlayed is incremented)
BumpPlayedFirstOnly(ts, t1, t2) == [ts EXCEPT ![t1].matchesPlayed = @ + 1]

\* recordMatch, lines 169-170.  t1 and t2 are positions in ts and may be the
\* same position: the statements act one after the other on the nodes.
BumpPlayed(ts, t1, t2) ==
  LET a == [ts EXCEPT ![t1].matchesPlayed = @ + 1]
  IN  [a EXCEPT ![t2].matchesPlayed = @ + 1]

\* (mutant: each team is credited with the other team's score)
AddRunsSwapped(ts, t1, t2, team1Score, team2Score) ==
  LET a == [ts EXCEPT ![t1].runsScored = @ + team2Score]
      b == [a EXCEPT ![t2].runsScored = @ + team1Score]
      c == [b EXCEPT ![t1].runsConceded = @ + team1Score]
  IN  [c EXCEPT ![t2].runsConceded = @ + team2Score]

\* recordMatch, lines 173-176
AddRuns(ts, t1, t2, team1Score, team2Score) ==
  LET a == [ts EXCEPT ![t1].runsScored = @ + team1Score]
      b == [a EXCEPT ![t2].runsScored = @ + team2Score]
      c == [b EXCEPT ![t1].runsConceded = @ + team2Score]
  IN  [c EXCEPT ![t2].runsConceded = @ + team1Score]

\* (mutant: a win worth three points)
ApplyWinThreePoints(ts, w, l) ==
  LET a == [ts EXCEPT ![w].wins = @ + 1]
      b == [a EXCEPT ![l].losses = @ + 1]
      c == [b EXCEPT ![w].points = @ + 3]
      d == [c EXCEPT ![w].form = Unshift(@, "W")]
  IN  [d EXCEPT ![l].form = Unshift(@, "L")]

\* (mutant: a win that books no loss for the other team)
ApplyWinWithoutLoss(ts, w, l) ==
  LET a == [ts EXCEPT ![w].wins = @ + 1]
      c == [a EXCEPT ![w].points = @ + 2]
      d == [c EXCEPT ![w].form = Unshift(@, "W")]
  IN  [d EXCEPT ![l].form = Unshift(@, "L")]

\* recordMatch, lines 183-189 and 191-197: w is the winner's node, l the loser's
ApplyWin(ts, w, l) ==
  LET a == [ts EXCEPT ![w].wins = @ + 1]
      b == [a EXCEPT ![l].losses = @ + 1]
      c == [b EXCEPT ![w].points = @ + 2]
      d == [c EXCEPT ![w].form = Unshift(@, "W")]
  IN  [d EXCEPT ![l].form = Unshift(@, "L")]

\* (mutant: a tie that awards no points)
ApplyTieWithoutPoints(ts, t1, t2) ==
  LET a == [ts EXCEPT ![t1].noResults = @ + 1]
      b == [a EXCEPT ![t2].noResults = @ + 1]
      e == [b EXCEPT ![t1].form = Unshift(@, "T")]
  IN  [e EXCEPT ![t2].form = Unshift(@, "T")]

\* recordMatch, lines 200-207
ApplyTie(ts, t1, t2) ==
  LET a == [ts EXCEPT ![t1].noResults = @ + 1]
      b == [a EXCEPT ![t2].noResults = @ + 1]
      c == [b EXCEPT ![t1].points = @ + 1]
      d == [c EXCEPT ![t2].points = @ + 1]
      e == [d EXCEPT ![t1].form = Unshift(@, "T")]
  IN  [e EXCEPT ![t2].form = Unshift(@, "T")]

\* recordMatch, lines 182-208: the if / else if / else
ApplyOutcome(ts, t1, t2, team1Score, team2Score) ==
  IF team1Score > team2Score THEN ApplyWin(ts, t1, t2)
  ELSE IF team2Score > team1Score THEN ApplyWin(ts, t2, t1)
  ELSE ApplyTie(ts, t1, t2)

\* recordMatch, lines 178-179 with the assignments of the three branches
Winner(team1, team2, team1Score, team2Score) ==
  IF team1Score > team2Score THEN team1
  ELSE IF team2Score > team1Score THEN team2
  ELSE TieMarker

Result(team1, team2, team1Score, team2Score) ==
  IF team1Score > team2Score THEN [winner |-> team1]
  ELSE IF team2Score > team1Score THEN [winner |-> team2]
  ELSE [tie |-> TRUE]

\* recordMatch, lines 211-212
NetRunRate(t) ==
  IF t.matchesPlayed > 0
  THEN ToFixed2(t.runsScored - t.runsConceded, t.matchesPlayed)
  ELSE 0

UpdateNRR(ts, t1, t2) ==
  LET a == [ts EXCEPT ![t1].netRunRate = NetRunRate(ts[t1])]
  IN  [a EXCEPT ![t2].netRunRate = NetRunRate(a[t2])]

\* recordMatch, lines 215-216
TrimForm(ts, t1, t2) ==
  LET a == [ts EXCEPT ![t1].form = Slice(@, 0, 5)]
  IN  [a EXCEPT ![t2].form = Slice(@, 0, 5)]

\* recordMatch, lines 169-216: the registry after a match between nodes t1, t2
PlayMatch(ts, t1, t2, team1Score, team2Score) ==
  TrimForm(
    UpdateNRR(
      ApplyOutcome(
        AddRuns(BumpPlayed(ts, t1, t2), t1, t2, team1Score, team2Score),
        t1, t2, team1Score, team2Score),
      t1, t2),
    t1, t2)

\* recordMatch, lines 218-226
MatchRecord(team1, team2, team1Score, team2Score) ==
  [ team1      |-> team1,
    team2      |-> team2,
    team1Score |-> team1Score,
    team2Score |-> team2Score,
    winner     |-> Winner(team1, team2, team1Score, team2Score),
    result     |-> Result(team1, team2, team1Score, team2Score) ]

(***************************************************************************)
(* The calls.  `last` is the latest call: its name, arguments, the message *)
(* of the error it threw ("" when it returned) and what it returned.       *)
(***************************************************************************)
Call(op, args, error, ret) ==
  [op |-> op, args |-> args, error |-> error, ret |-> ret]

\* the tournament instance after initializeIPLTeams()
RECURSIVE SeedFrom(_, _)
SeedFrom(list, i) ==
  IF i > Len(SeedNames) THEN list
  ELSE SeedFrom(ListAddTeam(list, [name |-> SeedNames[i]]), i + 1)

Init ==
  /\ teams = SeedFrom(<<>>, 1)
  /\ matchHistory = <<>>
  /\ upcomingMatches = <<>>
  /\ last = Call("initializeIPLTeams", <<>>, "", <<>>)

AddTeam(teamData) ==
  /\ teams' = ListAddTeam(teams, teamData)
  /\ last' = Call("addTeam", <<teamData>>, "", TeamNode(teamData))
  /\ UNCHANGED <<matchHistory, upcomingMatches>>

RecordMatch(team1, team2, team1Score, team2Score) ==
  LET t1 == FindTeam(teams, team1)
      t2 == FindTeam(teams, team2)
      args == <<team1, team2, team1Score, team2Score>>
      match == MatchRecord(team1, team2, team1Score, team2Score)
  IN  IF NotFound(t1, t2)
      THEN /\ last' = Call("recordMatch", args, TeamNotFound, <<>>)
           /\ UNCHANGED <<teams, matchHistory, upcomingMatches>>
      ELSE /\ teams' = PlayMatch(teams, t1, t2, team1Score, team2Score)
           /\ matchHistory' = StackPush(matchHistory, match)
           /\ last' = Call("recordMatch", args, "", match)
           /\ UNCHANGED upcomingMatches

\* getTeamStats returns the node findTeam found: here its position, or NULL
CallGetTeamStats(name) ==
  /\ last' = Call("getTeamStats", <<name>>, "", FindTeam(teams, name))
  /\ UNCHANGED <<teams, matchHistory, upcomingMatches>>

\* teams.getRanking(name)
CallGetRanking(name) ==
  /\ last' = Call("getRanking", <<name>>, "", ListGetRanking(teams, name))
  /\ UNCHANGED <<teams, matchHistory, upcomingMatches>>

CallGetStandings ==
  /\ last' = Call("getStandings", <<>>, "", GetStandings)
  /\ UNCHANGED <<teams, matchHistory, upcomingMatches>>

CallGetPlayoffTeams ==
  /\ last' = Call("getPlayoffTeams", <<>>, "", GetPlayoffTeams)
  /\ UNCHANGED <<teams, matchHistory, upcomingMatches>>

CallGetTournamentStats ==
  /\ last' = Call("getTournamentStats", <<>>, "", GetTournamentStats)
  /\ UNCHANGED <<teams, matchHistory, upcomingMatches>>

CallGetMatchHistory(args) ==
  /\ last' = Call("getMatchHistory", args, "", GetMatchHistory(args))
  /\ UNCHANGED <<teams, matchHistory, upcomingMatches>>

\* Queue.enqueue
QueueEnqueue(items, item) == Append(items, item)

\* (mutant: a shift that takes the newest item)
ShiftNewest(items) ==
  [item |-> items[Len(items)], rest |-> SubSeq(items, 1, Len(items) - 1)]

\* Array.prototype.shift on a non-empty array: the item taken, the items left
Shift(items) == [item |-> Head(items), rest |-> Tail(items)]

\* Queue.getAll
QueueGetAll(items) == items

AddUpcomingMatch(matchData) ==
  /\ upcomingMatches' = QueueEnqueue(upcomingMatches, matchData)
  /\ last' = Call("addUpcomingMatch", <<matchData>>, "", <<>>)
  /\ UNCHANGED <<teams, matchHistory>>

GetUpcomingMatches ==
  /\ last' = Call("getUpcomingMatches", <<>>, "", QueueGetAll(upcomingMatches))
  /\ UNCHANGED <<teams, matchHistory, upcomingMatches>>

\* Queue.dequeue on the tournament's queue; shift gives undefined, here <<>>,
\* on an empty array
Dequeue ==
  IF upcomingMatches = <<>>
  THEN /\ last' = Call("dequeue", <<>>, "", <<>>)
       /\ UNCHANGED <<teams, matchHistory, upcomingMatches>>
  ELSE /\ upcomingMatches' = Shift(upcomingMatches).rest
       /\ last' = Call("dequeue", <<>>, "", Shift(upcomingMatches).item)
       /\ UNCHANGED <<teams, matchHistory>>

\* (mutant: a reset that keeps the fixture queue)
ResetKeepingQueue ==
  /\ teams' = <<>>
  /\ matchHistory' = <<>>
  /\ last' = Call("resetTournament", <<>>, "", <<>>)
  /\ UNCHANGED upcomingMatches

ResetTournament ==
  /\ teams' = <<>>
  /\ matchHistory' = <<>>
  /\ upcomingMatches' = <<>>
  /\ last' = Call("resetTournament", <<>>, "", <<>>)

(***************************************************************************)
(* Spec: every engine operation, from the seeded instance.                 *)
(***************************************************************************)
DoAddTeam ==
  /\ Len(teams) < MaxTeams
  /\ \E teamData \in AddData : AddTeam(teamData)

\* recordMatch between teams of the seed roster: Mumbai Indians against
\* itself, or Chennai Super Kings (spelled in lower case) against it
DoRecordMatch ==
  /\ Len(matchHistory) < MaxMatches
  /\ \E team1 \in {MI, CskLower}, s1 \in Scores, s2 \in Scores :
       RecordMatch(team1, MI, s1, s2)

\* recordMatch naming a team that was never registered, first, second or both
DoRecordUnknown ==
  \E team1 \in {MI, Ghost}, team2 \in {MI, Ghost} :
    /\ team1 = Ghost \/ team2 = Ghost
    /\ RecordMatch(team1, team2, 1, 0)

DoGetMatchHistory == \E args \in {<<>>, <<1>>} : CallGetMatchHistory(args)

DoAddUpcomingMatch ==
  /\ Len(upcomingMatches) < MaxQueue
  /\ \E matchData \in Fixtures : AddUpcomingMatch(matchData)

Next ==
  \/ DoAddTeam
  \/ DoRecordMatch
  \/ DoRecordUnknown
  \/ CallGetStandings
  \/ CallGetPlayoffTeams
  \/ CallGetTournamentStats
  \/ DoGetMatchHistory
  \/ DoAddUpcomingMatch
  \/ GetUpcomingMatches
  \/ ResetTournament

Spec == Init /\ [][Next]_vars

(***************************************************************************)
(* SpecNRR: long runs of recordMatch alone, Mumbai Indians against itself  *)
(* or against Chennai Super Kings, so that a team plays up to 2 * MaxDeep  *)
(* matches and its run difference takes every small value.                 *)
(***************************************************************************)
DeepRecordMatch ==
  /\ Len(matchHistory) < MaxDeep
  /\ \E team2 \in {MI, CskLower}, s1 \in Scores, s2 \in Scores :
       RecordMatch(MI, team2, s1, s2)

NextNRR == DeepRecordMatch

SpecNRR == Init /\ [][NextNRR]_vars

(***************************************************************************)
(* SpecHistory: a ledger grown past the default limit.  The k-th match is  *)
(* recorded with team1Score = k, so the entries are pairwise different.    *)
(***************************************************************************)
HistoryArgs == {<<>>, <<0>>, <<2>>, <<49>>, <<51>>}

HistoryRecordMatch ==
  /\ Len(matchHistory) < MaxHistory
  /\ \E s1 \in {Len(matchHistory) + 1} : RecordMatch(MI, CskLower, s1, 0)

HistoryGetMatchHistory == \E args \in HistoryArgs : CallGetMatchHistory(args)

NextHistory == HistoryRecordMatch \/ HistoryGetMatchHistory

SpecHistory == Init /\ [][NextHistory]_vars

(***************************************************************************)
(* SpecQueue: the fixture queue filled and emptied while teams are         *)
(* registered and matches recorded.                                        *)
(***************************************************************************)
\* fixture-queue length explored by SpecQueue
MaxFixtures == 3

QueueFixtures == Fixtures \cup {[team1 |-> CSK, team2 |-> MI]}

QueueAddUpcomingMatch ==
  /\ Len(upcomingMatches) < MaxFixtures
  /\ \E matchData \in QueueFixtures : AddUpcomingMatch(matchData)

QueueAddTeam ==
  /\ Len(teams) < MaxTeams
  /\ AddTeam([name |-> MI])

\* a match that is recorded on the seed roster, and one that throws
QueueRecordMatch ==
  /\ Len(matchHistory) < MaxMatches
  /\ \E team2 \in {CskLower, Ghost} : RecordMatch(MI, team2, 1, 0)

NextQueue ==
  \/ QueueAddUpcomingMatch
  \/ Dequeue
  \/ GetUpcomingMatches
  \/ QueueAddTeam
  \/ QueueRecordMatch
  \/ CallGetStandings
  \/ CallGetPlayoffTeams
  \/ CallGetTournamentStats
  \/ CallGetMatchHistory(<<>>)
  \/ ResetTournament

SpecQueue == Init /\ [][NextQueue]_vars

(***************************************************************************)
(* SpecRegistry: teams registered on top of the seed roster under names    *)
(* the roster already holds, lookups and matches under either spelling.    *)
(***************************************************************************)
\* number of teams SpecRegistry registers on top of the seed roster
MaxDuplicates == 2

RegistryAddTeam ==
  /\ Len(teams) < Len(SeedNames) + MaxDuplicates
  /\ \E teamData \in {[name |-> CskLower], [name |-> MI]} : AddTeam(teamData)

\* Chennai Super Kings, under either spelling, beat or tie Mumbai Indians
RegistryRecordMatch ==
  /\ Len(matchHistory) < MaxMatches
  /\ \E team1 \in {CSK, CskLower}, s1 \in Scores : RecordMatch(team1, MI, s1, 0)

RegistryGetTeamStats == \E name \in {CskLower, MI, Ghost} : CallGetTeamStats(name)

RegistryGetRanking == \E name \in {CskLower, Ghost} : CallGetRanking(name)

NextRegistry ==
  \/ RegistryAddTeam
  \/ RegistryRecordMatch
  \/ RegistryGetTeamStats
  \/ RegistryGetRanking
  \/ CallGetStandings
  \/ CallGetPlayoffTeams
  \/ CallGetTournamentStats

SpecRegistry == Init /\ [][NextRegistry]_vars

(***************************************************************************)
(* The HTTP boundary.  A request body is a record holding the fields the   *)
(* client sent; text is a sequence of character codes.  `last` is the      *)
(* latest exchange: the route, the body, the message of a refusal ("" when *)
(* the request succeeded) and the reply's status and data.                 *)
(***************************************************************************)
\* ledger length explored by SpecServer
MaxServed == 2
\* number of teams SpecServer registers on top of the seed roster
MaxPosted == 2

\* 'Ghost ', ' mumbai indians ', '  ' and 'undefined'
GhostPadded == <<71, 104, 111, 115, 116, 32>>
MiPadded == <<32, 109, 117, 109, 98, 97, 105, 32, 105, 110, 100, 105, 97, 110, 115, 32>>
Blank == <<32, 32>>
UndefinedText == <<117, 110, 100, 101, 102, 105, 110, 101, 100>>

\* the messages of the refusals
BothTeamsRequired == "Both teams are required"
EnterScores == "Please enter scores for both teams"
NameRequired == "Team name is required"
AlreadyExists == "Team already exists"

\* white space of String.prototype.trim and parseInt, within ASCII
IsSpace(c) == c \in {9, 10, 11, 12, 13, 32}

RECURSIVE TrimStart(_)
TrimStart(s) == IF s # <<>> /\ IsSpace(Head(s)) THEN TrimStart(Tail(s)) ELSE s

\* String.prototype.trim
Trim(s) == Reverse(TrimStart(Reverse(TrimStart(s))))

IsDigit(c) == c >= 48 /\ c <= 57

\* the number written by the longest prefix of s made of decimal digits
RECURSIVE DigitsValue(_, _)
DigitsValue(s, acc) ==
  IF s # <<>> /\ IsDigit(Head(s)) THEN DigitsValue(Tail(s), 10 * acc + Head(s) - 48)
  ELSE acc

NaN == [isNaN |-> TRUE, value |-> 0]

\* parseInt(text) for text that does not open with 0x: white space is
\* skipped, a sign is read, then the longest run of decimal digits; NaN when
\* there is none
ParseInt(text) ==
  LET s == TrimStart(text)
      signed == s # <<>> /\ Head(s) \in {43, 45}
      digits == IF signed THEN Tail(s) ELSE s
      v == DigitsValue(digits, 0)
  IN  IF digits = <<>> \/ ~IsDigit(Head(digits)) THEN NaN
      ELSE [isNaN |-> FALSE, value |-> IF Head(s) = 45 THEN -v ELSE v]

\* x || 0 for a number x
OrZero(x) == IF x.isNaN \/ x.value = 0 THEN 0 ELSE x.value

\* !body.f for a field of text
Missing(body, f) == f \notin DOMAIN body \/ body[f] = <<>>

\* String(body.f), as parseInt reads its argument
Text(body, f) == IF f \in DOMAIN body THEN body[f] ELSE UndefinedText

\* res.status(status).json({data})
Reply(status, data) == [status |-> status, data |-> data]

\* (mutant: the boundary without its check of the scores)
NoScoreCheck(score1, score2) == FALSE

\* score1 === 0 && score2 === 0
BothZero(score1, score2) == score1 = 0 /\ score2 = 0

\* POST /api/matches
PostMatches(body) ==
  LET route == "POST /api/matches"
      score1 == OrZero(ParseInt(Text(body, "team1Score")))
      score2 == OrZero(ParseInt(Text(body, "team2Score")))
      t1 == FindTeam(teams, body.team1)
      t2 == FindTeam(teams, body.team2)
      match == MatchRecord(body.team1, body.team2, score1, score2)
  IN  IF Missing(body, "team1") \/ Missing(body, "team2")
      THEN /\ last' = Call(route, <<body>>, BothTeamsRequired, Reply(400, <<>>))
           /\ UNCHANGED <<teams, matchHistory, upcomingMatches>>
      ELSE IF BothZero(score1, score2)
      THEN /\ last' = Call(route, <<body>>, EnterScores, Reply(400, <<>>))
           /\ UNCHANGED <<teams, matchHistory, upcomingMatches>>
      ELSE IF NotFound(t1, t2)
      THEN /\ last' = Call(route, <<body>>, TeamNotFound, Reply(400, <<>>))
           /\ UNCHANGED <<teams, matchHistory, upcomingMatches>>
      ELSE /\ teams' = PlayMatch(teams, t1, t2, score1, score2)
           /\ matchHistory' = StackPush(matchHistory, match)
           /\ last' = Call(route, <<body>>, "", Reply(200, match))
           /\ UNCHANGED upcomingMatches

\* POST /api/teams
PostTeams(teamData) ==
  LET route == "POST /api/teams"
      teamName == IF "name" \in DOMAIN teamData THEN Trim(teamData.name) ELSE <<>>
  IN  IF teamName = <<>>
      THEN /\ last' = Call(route, <<teamData>>, NameRequired, Reply(400, <<>>))
           /\ UNCHANGED <<teams, matchHistory, upcomingMatches>>
      ELSE IF FindTeam(teams, teamName) # NULL
      THEN /\ last' = Call(route, <<teamData>>, AlreadyExists, Reply(409, <<>>))
           /\ UNCHANGED <<teams, matchHistory, upcomingMatches>>
      ELSE /\ teams' = ListAddTeam(teams, teamData)
           /\ last' = Call(route, <<teamData>>, "", Reply(201, TeamNode(teamData)))
           /\ UNCHANGED <<matchHistory, upcomingMatches>>

\* the GET routes
GetApiStandings ==
  /\ last' = Call("GET /api/standings", <<>>, "", Reply(200, GetStandings))
  /\ UNCHANGED <<teams, matchHistory, upcomingMatches>>

GetApiTeams ==
  /\ last' = Call("GET /api/teams", <<>>, "", Reply(200, GetAllTeams(teams)))
  /\ UNCHANGED <<teams, matchHistory, upcomingMatches>>

GetApiHistory ==
  /\ last' = Call("GET /api/matches/history", <<>>, "", Reply(200, GetMatchHistory(<<>>)))
  /\ UNCHANGED <<teams, matchHistory, upcomingMatches>>

GetApiTournament ==
  /\ last' = Call("GET /api/tournament", <<>>, "",
                  Reply(200, [tournament |-> GetTournamentStats,
                              standings |-> GetStandings,
                              playoffTeams |-> GetPlayoffTeams]))
  /\ UNCHANGED <<teams, matchHistory, upcomingMatches>>

GetApiHealth ==
  /\ last' = Call("GET /api/health", <<>>, "", Reply(200, GetTournamentStats))
  /\ UNCHANGED <<teams, matchHistory, upcomingMatches>>

(***************************************************************************)
(* SpecServer: every route, from the seeded instance.                      *)
(***************************************************************************)
\* the texts sent as scores: '1', '-1' and 'x' for team1, '0' and '1' for team2
RawScores == [team1Score |-> {<<49>>, <<45, 49>>, <<120>>},
              team2Score |-> {<<48>>, <<49>>}]

\* complete bodies, a body naming an unknown team, one without team1, one
\* with an empty team2 and one without scores
MatchBodies ==
  {[team1 |-> MI, team2 |-> CskLower, team1Score |-> x, team2Score |-> y] :
     x \in RawScores.team1Score, y \in RawScores.team2Score}
  \cup {[team1 |-> MI, team2 |-> Ghost, team1Score |-> <<49>>, team2Score |-> <<48>>],
        [team2 |-> CskLower, team1Score |-> <<49>>, team2Score |-> <<48>>],
        [team1 |-> MI, team2 |-> <<>>, team1Score |-> <<49>>, team2Score |-> <<48>>],
        [team1 |-> MI, team2 |-> CskLower]}

TeamBodies ==
  {[name |-> Ghost], [name |-> GhostPadded], [name |-> MiPadded],
   [name |-> Blank], [shortName |-> Ghost]}

ServePostMatches ==
  /\ Len(matchHistory) < MaxServed
  /\ \E body \in MatchBodies : PostMatches(body)

ServePostTeams ==
  /\ Len(teams) < Len(SeedNames) + MaxPosted
  /\ \E teamData \in TeamBodies : PostTeams(teamData)

NextServer ==
  \/ ServePostMatches
  \/ ServePostTeams
  \/ GetApiStandings
  \/ GetApiTeams
  \/ GetApiHistory
  \/ GetApiTournament
  \/ GetApiHealth

SpecServer == Init /\ [][NextServer]_vars

(***************************************************************************)
(* Vocabulary of the properties.                                           *)
(***************************************************************************)
\* a team is registered under name, ignoring letter case
Registered(name) ==
  \E i \in 1..Len(teams) : ToLowerCase(teams[i].name) = ToLowerCase(name)

\* the latest call was a recordMatch that returned
Recorded == last.op = "recordMatch" /\ last.error = ""

\* the outcome symbol of a match for the side that scored mine against theirs
Symbol(mine, theirs) ==
  IF mine > theirs THEN "W" ELSE IF mine < theirs THEN "L" ELSE "T"

\* s holds the elements of list, each as often as list does
IsPermutation(s, list) ==
  /\ Len(s) = Len(list)
  /\ \A i \in 1..Len(list) :
       Cardinality({j \in 1..Len(s) : s[j] = list[i]})
         = Cardinality({j \in 1..Len(list) : list[j] = list[i]})

\* s is in the order of the standings
IsRanked(s) ==
  \A i \in 1..(Len(s) - 1) :
    \/ s[i].points > s[i + 1].points
    \/ s[i].points = s[i + 1].points /\ s[i].netRunRate >= s[i + 1].netRunRate

Names(s) == [i \in 1..Len(s) |-> s[i].name]

Empty == teams = <<>> /\ matchHistory = <<>> /\ upcomingMatches = <<>>

(***************************************************************************)
(* C1: after every recordMatch call, returning or throwing, every team of  *)
(* the registry has matchesPlayed = wins + losses + noResults.             *)
(***************************************************************************)
C1_PlayedIsSumOfOutcomes ==
  \A i \in 1..Len(teams) :
    teams[i].matchesPlayed = teams[i].wins + teams[i].losses + teams[i].noResults

\* a throwing call after a win and a tie of the same team
C1_Witness ==
  /\ last.op = "recordMatch" /\ last.error = TeamNotFound
  /\ \E i \in 1..Len(teams) : teams[i].wins = 1 /\ teams[i].noResults = 1

(***************************************************************************)
(* C2: recordMatch with a name (first or second) under which no team is    *)
(* registered throws 'Team not found' and changes neither the teams, nor   *)
(* the ledger, nor the fixture queue.                                      *)
(***************************************************************************)
C2_UnknownTeamChangesNothing ==
  [][ ( /\ last'.op = "recordMatch"
        /\ ~Registered(last'.args[1]) \/ ~Registered(last'.args[2]) )
      => ( /\ last'.error = TeamNotFound
           /\ UNCHANGED <<teams, matchHistory, upcomingMatches>> ) ]_vars

\* a throwing call whose first name is registered and whose second is not,
\* on a state with recorded matches and a queued fixture
C2_Witness ==
  /\ last.op = "recordMatch" /\ last.error = TeamNotFound
  /\ Registered(last.args[1]) /\ ~Registered(last.args[2])
  /\ matchHistory # <<>> /\ upcomingMatches # <<>>

(***************************************************************************)
(* C3: every team's netRunRate is a hundredth nearest to                   *)
(* (runsScored - runsConceded) / matchesPlayed when matchesPlayed > 0,     *)
(* and is 0 when matchesPlayed = 0.                                        *)
(***************************************************************************)
C3_NetRunRateIsRoundedQuotient ==
  \A i \in 1..Len(teams) :
    LET t == teams[i]
    IN  IF t.matchesPlayed > 0
        THEN 2 * Abs(t.netRunRate * t.matchesPlayed
                       - 100 * (t.runsScored - t.runsConceded)) <= t.matchesPlayed
        ELSE t.netRunRate = 0

\* quotients that are no whole number of hundredths: 2/3 and -2/3
C3_Witness ==
  /\ \E i \in 1..Len(teams) :
       /\ teams[i].matchesPlayed = 3
       /\ teams[i].runsScored - teams[i].runsConceded = 2
       /\ teams[i].netRunRate = 67
  /\ \E i \in 1..Len(teams) :
       /\ teams[i].matchesPlayed = 3
       /\ teams[i].runsScored - teams[i].runsConceded = -2
       /\ teams[i].netRunRate = -67

\* a quotient half-way between two hundredths: 1/8 = 0.125 is stored as 0.13
C3_HalfWay ==
  \E i \in 1..Len(teams) :
    /\ teams[i].matchesPlayed = 8
    /\ teams[i].runsScored - teams[i].runsConceded = 1
    /\ teams[i].netRunRate = 13

(***************************************************************************)
(* C4: no form is ever longer than 5, and a recordMatch that returns       *)
(* leaves, as the form of each of the two teams it names, that team's      *)
(* outcome symbol ('W' higher score, 'L' lower, 'T' equal) followed by the *)
(* first four entries of its previous form.                                *)
(***************************************************************************)
FormAfter(t, mine, theirs) == Slice(<<Symbol(mine, theirs)>> \o t.form, 0, 5)

C4_FormHeadIsOutcome ==
  [][ /\ \A i \in 1..Len(teams') : Len(teams'[i].form) <= 5
      /\ (last'.op = "recordMatch" /\ last'.error = "") =>
           LET a == last'.args
               t1 == FindTeam(teams, a[1])
               t2 == FindTeam(teams, a[2])
           IN  /\ teams'[t1].form = FormAfter(teams[t1], a[3], a[4])
               /\ teams'[t2].form = FormAfter(teams[t2], a[4], a[3]) ]_vars

\* the same, for calls whose two names find two different nodes
C4_FormHeadIsOutcomeOfTwoTeams ==
  [][ /\ \A i \in 1..Len(teams') : Len(teams'[i].form) <= 5
      /\ ( /\ last'.op = "recordMatch" /\ last'.error = ""
           /\ FindTeam(teams, last'.args[1]) # FindTeam(teams, last'.args[2]) ) =>
           LET a == last'.args
               t1 == FindTeam(teams, a[1])
               t2 == FindTeam(teams, a[2])
           IN  /\ teams'[t1].form = FormAfter(teams[t1], a[3], a[4])
               /\ teams'[t2].form = FormAfter(teams[t2], a[4], a[3]) ]_vars

(***************************************************************************)
(* C5: getStandings returns every registered team exactly once, each team  *)
(* having more points than the next or the same points and at least its    *)
(* net run rate; a getStandings right after a getStandings returns the     *)
(* same sequence.                                                          *)
(***************************************************************************)
C5_StandingsRankedAndRepeatable ==
  [][ last'.op = "getStandings" =>
        /\ IsRanked(last'.ret)
        /\ IsPermutation(last'.ret, teams)
        /\ last.op = "getStandings" => last'.ret = last.ret ]_vars

\* standings that differ from the insertion order and in which the net run
\* rate decides between two teams of equal points
C5_Witness ==
  /\ last.op = "getStandings"
  /\ \E i \in 1..Len(teams) : last.ret[i] # teams[i]
  /\ \E i \in 1..(Len(last.ret) - 1) :
       /\ last.ret[i].points = last.ret[i + 1].points
       /\ last.ret[i].netRunRate > last.ret[i + 1].netRunRate

(***************************************************************************)
(* C6: getPlayoffTeams returns min(4, number of teams) entries, the first  *)
(* entries of getStandings in their order, and the playoffTeams of         *)
(* getTournamentStats are their names.                                     *)
(***************************************************************************)
C6_PlayoffIsTopFour ==
  LET top == SubSeq(GetStandings, 1, Min(4, Len(teams)))
  IN  /\ Len(GetPlayoffTeams) = Min(4, Len(teams))
      /\ GetPlayoffTeams = top
      /\ GetTournamentStats.playoffTeams = Names(top)
      /\ last.op = "getPlayoffTeams" => last.ret = top
      /\ last.op = "getTournamentStats" => last.ret.playoffTeams = Names(top)

\* a playoff cut of a registry of fewer than four teams, after a match
C6_Witness ==
  /\ last.op = "getPlayoffTeams"
  /\ Len(teams) = 2 /\ Len(last.ret) = 2
  /\ last.ret[1].points > last.ret[2].points
  /\ last.ret[1] = teams[2]

(***************************************************************************)
(* C7: a recordMatch that returns, between two different teams and with    *)
(* different scores, gives the higher-scoring team wins+1 and points+2,    *)
(* the other losses+1 and the same points, leaves both noResults, adds     *)
(* score1 to team1.runsScored and team2.runsConceded and score2 to         *)
(* team2.runsScored and team1.runsConceded, returns as winner the name     *)
(* given for the higher-scoring team, and leaves every other team as it    *)
(* was.                                                                    *)
(***************************************************************************)
C7_WinUpdatesBothTeams ==
  [][ LET a == last'.args
          t1 == FindTeam(teams, a[1])
          t2 == FindTeam(teams, a[2])
          w == IF a[3] > a[4] THEN t1 ELSE t2
          l == IF a[3] > a[4] THEN t2 ELSE t1
      IN  ( /\ last'.op = "recordMatch" /\ last'.error = ""
            /\ t1 # t2 /\ a[3] # a[4] ) =>
            /\ Len(teams') = Len(teams)
            /\ teams'[w].wins = teams[w].wins + 1
            /\ teams'[w].points = teams[w].points + 2
            /\ teams'[w].losses = teams[w].losses
            /\ teams'[l].losses = teams[l].losses + 1
            /\ teams'[l].points = teams[l].points
            /\ teams'[l].wins = teams[l].wins
            /\ teams'[t1].noResults = teams[t1].noResults
            /\ teams'[t2].noResults = teams[t2].noResults
            /\ teams'[t1].runsScored = teams[t1].runsScored + a[3]
            /\ teams'[t2].runsConceded = teams[t2].runsConceded + a[3]
            /\ teams'[t2].runsScored = teams[t2].runsScored + a[4]
            /\ teams'[t1].runsConceded = teams[t1].runsConceded + a[4]
            /\ last'.ret.winner = (IF a[3] > a[4] THEN a[1] ELSE a[2])
            /\ ToLowerCase(last'.ret.winner) = ToLowerCase(teams[w].name)
            /\ \A k \in 1..Len(teams) : k \notin {t1, t2} => teams'[k] = teams[k] ]_vars

\* the second team has won a match against a team named in another spelling
C7_Witness ==
  /\ Recorded
  /\ last.args[3] < last.args[4]
  /\ FindTeam(teams, last.args[1]) # FindTeam(teams, last.args[2])
  /\ last.args[1] # teams[FindTeam(teams, last.args[1])].name
  /\ last.ret.winner = last.args[2]

(***************************************************************************)
(* C8: a recordMatch that returns, between two different teams and with    *)
(* equal scores (0-0 included), gives both teams noResults+1 and points+1, *)
(* leaves their wins and losses, puts 'T' at the head of both forms, and   *)
(* returns a record with winner 'Tie' and result {tie: true}.              *)
(***************************************************************************)
C8_TieUpdatesBothTeams ==
  [][ LET a == last'.args
          t1 == FindTeam(teams, a[1])
          t2 == FindTeam(teams, a[2])
      IN  ( /\ last'.op = "recordMatch" /\ last'.error = ""
            /\ t1 # t2 /\ a[3] = a[4] ) =>
            /\ \A t \in {t1, t2} :
                 /\ teams'[t].noResults = teams[t].noResults + 1
                 /\ teams'[t].points = teams[t].points + 1
                 /\ teams'[t].wins = teams[t].wins
                 /\ teams'[t].losses = teams[t].losses
                 /\ teams'[t].form = Slice(<<"T">> \o teams[t].form, 0, 5)
            /\ last'.ret.winner = TieMarker
            /\ last'.ret.result = [tie |-> TRUE] ]_vars

\* a 0-0 tie between two different teams
C8_Witness ==
  /\ Recorded
  /\ last.args[3] = 0 /\ last.args[4] = 0
  /\ FindTeam(teams, last.args[1]) # FindTeam(teams, last.args[2])
  /\ last.ret.winner = TieMarker

(***************************************************************************)
(* C9: right after resetTournament the standings, the match history and    *)
(* the upcoming matches are empty and the statistics report no team, no    *)
(* match and no playoff team; the empty engine stays empty under every     *)
(* call but addTeam and addUpcomingMatch, and a recordMatch on it throws   *)
(* 'Team not found'.                                                       *)
(***************************************************************************)
C9_ResetEmptiesEverything ==
  [][ /\ last'.op = "resetTournament" =>
           /\ GetStandings' = <<>>
           /\ GetTournamentStats' =
                [totalTeams |-> 0, matchesPlayed |-> 0, playoffTeams |-> <<>>]
           /\ GetMatchHistory(<<>>)' = <<>>
           /\ upcomingMatches' = <<>>
      /\ (Empty /\ last'.op \notin {"addTeam", "addUpcomingMatch"}) => Empty'
      /\ (Empty /\ last'.op = "recordMatch") => last'.error = TeamNotFound ]_vars

\* a recordMatch that threw on the engine emptied by a reset
C9_Witness ==
  /\ Empty
  /\ last.op = "recordMatch" /\ last.error = TeamNotFound

(***************************************************************************)
(* C10: getMatchHistory(limit) returns the min(limit, n) most recently     *)
(* recorded of the n matches of the ledger, the most recent first; without *)
(* an argument the limit is 50; the first entry after a recordMatch that   *)
(* returned is the record it returned.                                     *)
(***************************************************************************)
C10_HistoryIsMostRecentFirst ==
  LET n == Len(matchHistory)
  IN  /\ last.op = "getMatchHistory" =>
           LET limit == IF last.args = <<>> THEN 50 ELSE last.args[1]
               k == Min(limit, n)
           IN  /\ Len(last.ret) = k
               /\ \A j \in 1..k : last.ret[j] = matchHistory[n - j + 1]
      /\ Recorded => GetMatchHistory(<<>>)[1] = last.ret

\* the default limit cuts a ledger of 51 matches to the 50 latest
C10_Witness ==
  /\ last.op = "getMatchHistory" /\ last.args = <<>>
  /\ Len(matchHistory) = 51
  /\ Len(last.ret) = 50
  /\ last.ret[1].team1Score = 51 /\ last.ret[50].team1Score = 2

(***************************************************************************)
(* C11: under every call but resetTournament the ledger never shrinks: a   *)
(* recordMatch that returns adds exactly one entry, every other call (a    *)
(* recordMatch that throws included) adds none, and the entries already    *)
(* there keep their places and their contents.                             *)
(***************************************************************************)
C11_LedgerIsAppendOnly ==
  [][ last'.op # "resetTournament" =>
        /\ Len(matchHistory') >= Len(matchHistory)
        /\ SubSeq(matchHistory', 1, Len(matchHistory)) = matchHistory
        /\ Len(matchHistory') - Len(matchHistory) =
             (IF last'.op = "recordMatch" /\ last'.error = "" THEN 1 ELSE 0) ]_vars

\* a second, different record on the ledger, the first still below it
C11_Witness ==
  /\ Recorded
  /\ Len(matchHistory) = 2
  /\ matchHistory[2] = last.ret
  /\ matchHistory[1] # matchHistory[2]

(***************************************************************************)
(* C12: in every state reached through POST /api/teams from the seeded     *)
(* instance, no two teams of the registry have names that are equal        *)
(* ignoring letter case.                                                   *)
(***************************************************************************)
C12_NamesAreUnique ==
  \A i \in 1..Len(teams), j \in 1..Len(teams) :
    i # j => ToLowerCase(teams[i].name) # ToLowerCase(teams[j].name)

(***************************************************************************)
(* C13: in every state reached through POST /api/matches from the seeded   *)
(* instance, whatever the scores sent, every team's runsScored,            *)
(* runsConceded, points, matchesPlayed, wins, losses and noResults are     *)
(* non-negative.                                                           *)
(***************************************************************************)
C13_CountersAreNonNegative ==
  \A i \in 1..Len(teams) :
    /\ teams[i].runsScored >= 0 /\ teams[i].runsConceded >= 0
    /\ teams[i].points >= 0 /\ teams[i].matchesPlayed >= 0
    /\ teams[i].wins >= 0 /\ teams[i].losses >= 0 /\ teams[i].noResults >= 0

\* the scores of a body both parse to zero
ParseToZero(body) ==
  /\ OrZero(ParseInt(Text(body, "team1Score"))) = 0
  /\ OrZero(ParseInt(Text(body, "team2Score"))) = 0

(***************************************************************************)
(* C14: a POST /api/matches whose body lacks a team name, or whose scores  *)
(* both parse to zero, is answered 400 with the boundary's own message and *)
(* leaves teams, ledger and queue as they were; and no state reached       *)
(* through the routes has a ledger entry scored 0 to 0.                    *)
(***************************************************************************)
C14_BadRequestIsRefused ==
  /\ [](\A i \in 1..Len(matchHistory) :
          ~(matchHistory[i].team1Score = 0 /\ matchHistory[i].team2Score = 0))
  /\ [][ ( /\ last'.op = "POST /api/matches"
           /\ \/ Missing(last'.args[1], "team1")
              \/ Missing(last'.args[1], "team2")
              \/ ParseToZero(last'.args[1]) )
         => /\ last'.ret.status = 400
            /\ last'.error \in {BothTeamsRequired, EnterScores}
            /\ UNCHANGED <<teams, matchHistory, upcomingMatches>> ]_vars

\* scores 'x' and '0' refused once a match is on the ledger
C14_Witness ==
  /\ last.op = "POST /api/matches"
  /\ last.error = EnterScores
  /\ Text(last.args[1], "team1Score") = <<120>>
  /\ Text(last.args[1], "team2Score") = <<48>>
  /\ matchHistory # <<>>

(***************************************************************************)
(* C15: the fixture queue is first-in-first-out and no other operation     *)
(* touches it: addUpcomingMatch puts its fixture behind the others,        *)
(* dequeue takes and returns the oldest fixture (and returns nothing from  *)
(* an empty queue), getUpcomingMatches returns the fixtures oldest first,  *)
(* resetTournament empties the queue, and recordMatch (returning or        *)
(* throwing), addTeam and the reads leave its contents and order alone.    *)
(***************************************************************************)
C15_QueueIsFifo ==
  [][ /\ last'.op = "addUpcomingMatch" =>
           upcomingMatches' = upcomingMatches \o <<last'.args[1]>>
      /\ last'.op = "dequeue" =>
           IF upcomingMatches = <<>>
           THEN upcomingMatches' = <<>> /\ last'.ret = <<>>
           ELSE /\ last'.ret = upcomingMatches[1]
                /\ upcomingMatches' = SubSeq(upcomingMatches, 2, Len(upcomingMatches))
      /\ last'.op = "getUpcomingMatches" => last'.ret = upcomingMatches
      /\ last'.op = "resetTournament" => upcomingMatches' = <<>>
      /\ last'.op \notin {"addUpcomingMatch", "dequeue", "resetTournament"} =>
           upcomingMatches' = upcomingMatches ]_vars

\* of two different fixtures the one added first was dequeued, after a match
\* was recorded
C15_Witness ==
  /\ last.op = "dequeue"
  /\ last.ret = [team1 |-> MI, team2 |-> CSK]
  /\ upcomingMatches = <<[team1 |-> CSK, team2 |-> MI]>>
  /\ matchHistory # <<>>

(***************************************************************************)
(* C16: a recordMatch that returns leaves the record found for team1, and  *)
(* the record found for team2, with matchesPlayed exactly one more than    *)
(* before the call, also when both names find the same record.             *)
(***************************************************************************)
C16_PlayedGrowsByOne ==
  [][ last'.op = "recordMatch" /\ last'.error = "" =>
        LET t1 == FindTeam(teams, last'.args[1])
            t2 == FindTeam(teams, last'.args[2])
        IN  /\ teams'[t1].matchesPlayed = teams[t1].matchesPlayed + 1
            /\ teams'[t2].matchesPlayed = teams[t2].matchesPlayed + 1 ]_vars

\* the positions of the teams whose name is name, ignoring letter case
Matching(name) ==
  {i \in 1..Len(teams) : ToLowerCase(teams[i].name) = ToLowerCase(name)}

\* an earlier team has the name of team i, ignoring letter case
IsLaterDuplicate(i) ==
  \E j \in 1..(i - 1) : ToLowerCase(teams[j].name) = ToLowerCase(teams[i].name)

(***************************************************************************)
(* C17: getTeamStats(name) finds the earliest-registered team whose name   *)
(* is name ignoring letter case, and null when there is none; and a team   *)
(* registered under a name an earlier team already has is changed by no    *)
(* recordMatch, under whatever spelling the match names it.                *)
(***************************************************************************)
C17_LookupIsFirstMatch ==
  /\ [](last.op = "getTeamStats" =>
          IF Matching(last.args[1]) = {} THEN last.ret = NULL
          ELSE /\ last.ret \in Matching(last.args[1])
               /\ \A i \in Matching(last.args[1]) : last.ret <= i)
  /\ [][ last'.op = "recordMatch" =>
           \A i \in 1..Len(teams) : IsLaterDuplicate(i) => teams'[i] = teams[i] ]_vars

\* a match under the lower-case spelling, recorded while a second team of
\* that very name is registered: the seed team played, the later one did not
C17_Witness ==
  /\ Recorded
  /\ last.args[1] = CskLower
  /\ Len(teams) > Len(SeedNames)
  /\ teams[Len(SeedNames) + 1].name = CskLower
  /\ teams[2].matchesPlayed = 1
  /\ teams[Len(SeedNames) + 1].matchesPlayed = 0

(***************************************************************************)
(* C18: addTeam puts the new team last in getAllTeams() and leaves the     *)
(* teams before it in place; getStandings, getPlayoffTeams, getRanking and *)
(* getTournamentStats leave getAllTeams() as it was, and recordMatch       *)
(* leaves its order and membership as they were.                           *)
(***************************************************************************)
C18_RegistryKeepsInsertionOrder ==
  [][ /\ last'.op = "addTeam" =>
           /\ Len(GetAllTeams(teams')) = Len(GetAllTeams(teams)) + 1
           /\ SubSeq(GetAllTeams(teams'), 1, Len(teams)) = GetAllTeams(teams)
           /\ GetAllTeams(teams')[Len(teams')].name = last'.args[1].name
      /\ last'.op \in {"getStandings", "getPlayoffTeams", "getRanking",
                        "getTournamentStats"} =>
           GetAllTeams(teams') = GetAllTeams(teams)
      /\ last'.op = "recordMatch" =>
           Names(GetAllTeams(teams')) = Names(GetAllTeams(teams)) ]_vars

\* standings in another order than the registry, which holds an added team
C18_Witness ==
  /\ last.op = "getStandings"
  /\ Names(last.ret) # Names(teams)
  /\ Len(teams) > Len(SeedNames)
  /\ teams[1].name = MI

(***************************************************************************)
(* C19: with every team registered with zero counters, every team has      *)
(* points = 2 * wins + noResults in every state.                           *)
(***************************************************************************)
C19_PointsFollowOutcomes ==
  \A i \in 1..Len(teams) : teams[i].points = 2 * teams[i].wins + teams[i].noResults

\* Mumbai Indians after a win and a tie
C19_Witness ==
  /\ Recorded
  /\ teams[1].name = MI
  /\ teams[1].wins = 1 /\ teams[1].noResults = 1 /\ teams[1].points = 3

\* the sum of a counter over the registry
RECURSIVE TotalFrom(_, _)
TotalFrom(f, i) ==
  IF i > Len(teams) THEN 0 ELSE teams[i][f] + TotalFrom(f, i + 1)

Total(f) == TotalFrom(f, 1)

(***************************************************************************)
(* C20: with every team registered with zero counters, in every state the  *)
(* points of all teams add up to twice the ledger's size, and so do their  *)
(* matchesPlayed; their wins add up to their losses and their runsScored   *)
(* to their runsConceded.  getTournamentStats().matchesPlayed is the       *)
(* ledger's size, which is the number of recordMatch calls that returned   *)
(* since the last reset: such a call adds one to it, a reset makes it 0    *)
(* and no other call changes it.                                           *)
(***************************************************************************)
C20_CountersAreConserved ==
  /\ []( /\ Total("points") = 2 * Len(matchHistory)
         /\ Total("matchesPlayed") = 2 * Len(matchHistory)
         /\ Total("wins") = Total("losses")
         /\ Total("runsScored") = Total("runsConceded")
         /\ last.op = "getTournamentStats" =>
              last.ret.matchesPlayed = Len(matchHistory) )
  /\ [][ Len(matchHistory') =
           IF last'.op = "resetTournament" THEN 0
           ELSE IF last'.op = "recordMatch" /\ last'.error = ""
                THEN Len(matchHistory) + 1
                ELSE Len(matchHistory) ]_vars

\* the statistics read after a won match and a second match
C20_Witness ==
  /\ last.op = "getTournamentStats"
  /\ last.ret.matchesPlayed = 2
  /\ Total("points") = 4
  /\ Total("wins") = 1 /\ Total("runsScored") > 0

====
